---- MODULE Spec2Model ----
(***************************************************************************)
(* Car-rental booking service: the JSON document store (JsonStore), the    *)
(* file-backed repositories and the booking service, as a state machine.   *)
(*                                                                         *)
(* A caller is one thread of one process.  Every caller runs store         *)
(* operations (read, write, update) step by step: in-process mutex, lock   *)
(* marker file, critical section, marker removal, mutex release.           *)
(* Time is counted in ticks of the poll interval.                          *)
(***************************************************************************)
EXTENDS Integers, Sequences, FiniteSets, TLC

\* ---------------------------------------------------------------- bounds
LockTimeoutTicks == 2
MaxFaults == 1
MaxDay == 3
\* requests_per_minute of the rate limiter, the length of its window and the
\* last reading of the clock, in ticks
RequestsPerMinute == 2
WindowTicks == 2
MaxClock == 3

\* the callers: two threads of process 1 and one thread of process 2
Callers == {1, 2, 3}
Procs == {1, 2}
ProcOf(c) == IF c = 3 THEN 2 ELSE 1
Days == 1..MaxDay

\* ------------------------------------------------------------ JSON values
\* A Python dict is a sequence of entries [k, v] in insertion order, keys
\* distinct.  Every value of the model is a JSON array of objects.
KeyOrder == <<"_root", "bookings", "cars", "meta">>
KeyRank(k) == CHOOSE i \in 1..Len(KeyOrder) : KeyOrder[i] = k

DictKeys(d) == {d[i].k : i \in 1..Len(d)}
DictGet(d, k, default) ==
    IF k \in DictKeys(d)
    THEN d[CHOOSE i \in 1..Len(d) : d[i].k = k].v
    ELSE default
\* d[k] = v: replaces the value in place, or inserts at the end
DictSet(d, k, v) ==
    IF k \in DictKeys(d)
    THEN [i \in 1..Len(d) |-> IF d[i].k = k THEN [k |-> k, v |-> v] ELSE d[i]]
    ELSE Append(d, [k |-> k, v |-> v])
\* Python's dict equality: same keys, same values, any order
DictEq(a, b) ==
    /\ DictKeys(a) = DictKeys(b)
    /\ \A k \in DictKeys(a) : DictGet(a, k, <<>>) = DictGet(b, k, <<>>)

\* date.isoformat(): the digits of YYYY-MM-DD (all dates lie in 2026-01)
IsoFormat(d) == <<2, 0, 2, 6, 0, 1, d \div 10, d % 10>>
\* date.fromisoformat(), as pydantic's validation of a date field does
FromIso(s) == s[7] * 10 + s[8]
\* comparison of two ISO strings, character by character
RECURSIVE StrLeqFrom(_, _, _)
StrLeqFrom(a, b, i) ==
    IF i > Len(a) THEN TRUE
    ELSE IF i > Len(b) THEN FALSE
    ELSE IF a[i] < b[i] THEN TRUE
    ELSE IF a[i] > b[i] THEN FALSE
    ELSE StrLeqFrom(a, b, i + 1)
StrLeq(a, b) == StrLeqFrom(a, b, 1)

\* Booking.model_dump(mode="json")
ModelDump(b) ==
    [id |-> b.id, car_id |-> b.car_id, start_date |-> IsoFormat(b.start_date),
     end_date |-> IsoFormat(b.end_date), customer_name |-> b.customer_name]
\* Booking.model_validate(raw)
ModelValidate(j) ==
    [id |-> j.id, car_id |-> j.car_id, start_date |-> FromIso(j.start_date),
     end_date |-> FromIso(j.end_date), customer_name |-> j.customer_name]

\* ------------------------------------------------------------ file texts
\* A text is a sequence of chunks: "{", one chunk per member, "}"; "array" is
\* a whole top-level JSON array, "ws" white space, "junk" anything else.
Chunk(t, k, v) == [t |-> t, k |-> k, v |-> v]
OpenBrace == Chunk("{", "", <<>>)
CloseBrace == Chunk("}", "", <<>>)
WhiteSpace == Chunk("ws", "", <<>>)
Junk == Chunk("junk", "", <<>>)
\* bytes that are not UTF-8
BadBytes == Chunk("bytes", "", <<>>)

\* the entries of d ordered by key (sort_keys=True)
RECURSIVE SortKeys(_)
SortKeys(d) ==
    IF d = <<>> THEN <<>>
    ELSE LET m == CHOOSE i \in 1..Len(d) :
                      \A j \in 1..Len(d) : KeyRank(d[i].k) <= KeyRank(d[j].k)
             rest == [i \in 1..(Len(d) - 1) |-> IF i < m THEN d[i] ELSE d[i + 1]]
         IN <<d[m]>> \o SortKeys(rest)

\* json.dumps(data, ensure_ascii=False, indent=2, sort_keys=True)
JsonDumps(d) ==
    LET s == SortKeys(d)
    IN <<OpenBrace>> \o [i \in 1..Len(s) |-> Chunk("member", s[i].k, s[i].v)]
           \o <<CloseBrace>>

\* raw.strip()
RECURSIVE LStrip(_)
LStrip(s) == IF s # <<>> /\ s[1].t = "ws" THEN LStrip(Tail(s)) ELSE s
RECURSIVE RStrip(_)
RStrip(s) ==
    IF s # <<>> /\ s[Len(s)].t = "ws" THEN RStrip(SubSeq(s, 1, Len(s) - 1)) ELSE s
Strip(s) == RStrip(LStrip(s))

IsObjectText(s) ==
    /\ Len(s) >= 2
    /\ s[1].t = "{"
    /\ s[Len(s)].t = "}"
    /\ \A i \in 2..(Len(s) - 1) : s[i].t = "member"
IsArrayText(s) == Len(s) = 1 /\ s[1].t = "array"
\* json.loads accepts the text (otherwise it raises JSONDecodeError)
JsonValid(raw) == IsObjectText(Strip(raw)) \/ IsArrayText(Strip(raw))

\* the dict json.loads builds from an object text: members in order, a
\* repeated key keeps its last value
RECURSIVE LoadMembers(_, _)
LoadMembers(s, acc) ==
    IF s = <<>> THEN acc
    ELSE LoadMembers(Tail(s), DictSet(acc, s[1].k, s[1].v))
\* mutant: the last member is not loaded
JsonLoadsObjectShort(s) == LoadMembers(SubSeq(s, 2, Len(s) - 2), <<>>)
JsonLoadsObject(s) == LoadMembers(SubSeq(s, 2, Len(s) - 1), <<>>)

\* ---------------------------------------------------------------- results
Ok(doc) == [err |-> "none", doc |-> doc]
Raise(e) == [err |-> e, doc |-> <<>>]

\* read_text(encoding="utf-8") cannot decode the file: UnicodeDecodeError, a
\* ValueError that is neither json.JSONDecodeError nor OSError
Undecodable(raw) == \E i \in 1..Len(raw) : raw[i].t = "bytes"

\* mutant: a top-level value that is no object is dropped
WrapRootEmpty(v) == <<>>
\* {"_root": data}
WrapRoot(v) == <<[k |-> "_root", v |-> v]>>

\* the body of read() and of read_unlocked(), given whether the path exists,
\* whether read_text fails, and the text
ReadResult(exists, ioerror, raw) ==
    IF ~exists THEN Ok(<<>>)
    ELSE IF ioerror THEN Raise("JsonStoreError")
    ELSE IF Undecodable(raw) THEN Raise("UnicodeDecodeError")
    ELSE IF Strip(raw) = <<>> THEN Ok(<<>>)
    ELSE IF ~JsonValid(raw) THEN Raise("JsonCorruptedError")
    ELSE IF IsObjectText(Strip(raw)) THEN Ok(JsonLoadsObject(Strip(raw)))
    ELSE Ok(WrapRoot(Strip(raw)[1].v))


\* ------------------------------------------------------------------ state
VARIABLES
    file,       \* the target file: [exists, text]
    marker,     \* the lock marker file: [exists, pid, by]; by: the creating caller
    tmp,        \* tmp[c]: the temporary file of caller c: [exists, text]
    mutex,      \* mutex[p]: the holder of JsonStore._mutex in process p, 0 if free
    alive,      \* alive[p]: process p has not crashed
    pc,         \* pc[c]: position of caller c
    op,         \* op[c]: the store operation c runs: read, write, update
    fn,         \* fn[c]: the function handed to update: append, raise, notdict
    elapsed,    \* elapsed[c]: time.monotonic() - start, in ticks
    fd,         \* fd[c]: c holds the descriptor of the marker it created
    payload,    \* payload[c]: the serialized document c writes
    cur,        \* cur[c]: the document c's update read
    res,        \* res[c]: the result of c's store operation: [err, doc]
    task,       \* task[c]: what c was asked to do
    req,        \* req[c]: the booking of c's request
    arg,        \* arg[c]: the document handed to write
    stage,      \* stage[c]: the repository call create_booking is in
    out,        \* out[c]: how c's create_booking ended
    checked,    \* checked[c]: ids of the bookings c's conflict check looked at
    avail,      \* avail[c]: the list c's available_cars or repository query returned
    faults,     \* I/O failures and crashes so far
    committed,  \* history: bookings in the order their updates were renamed in
    acked,      \* history: ids of the bookings whose add returned normally
    lastWritten, \* history: the document of the last write(), if no update followed
    clock,      \* the reading of time.time(), in ticks
    requests,   \* requests[ip]: RateLimitMiddleware.requests, the times recorded for ip
    handled,    \* history: handled[ip][t]: counted requests of ip passed on at time t
    answer      \* what the middleware did with the last request: [path, ip, status]

fsVars == <<file, marker, tmp>>
procVars == <<mutex, alive>>
callVars == <<pc, op, fn, elapsed, fd, payload, cur, res>>
taskVars == <<task, req, arg, stage, out, checked, avail>>
envVars == <<faults>>
histVars == <<committed, acked, lastWritten>>
\* the state of the rate limiting middleware
limiterVars == <<clock, requests, handled, answer>>
storeVars == <<fsVars, procVars, callVars, taskVars, envVars, histVars>>
vars == <<storeVars, limiterVars>>

NoFile == [exists |-> FALSE, text |-> <<>>]
FileOf(text) == [exists |-> TRUE, text |-> text]
NoMarker == [exists |-> FALSE, pid |-> 0, by |-> 0]
NoBooking == [id |-> 0, car_id |-> 0, start_date |-> 1, end_date |-> 1,
              customer_name |-> ""]

Cars0 ==
    <<[id |-> 1, make |-> "Toyota", model |-> "Corolla"],
      [id |-> 2, make |-> "Honda", model |-> "Civic"]>>
SeedDoc == <<[k |-> "cars", v |-> Cars0], [k |-> "bookings", v |-> <<>>]>>

\* what the data file may hold when the program starts
InitTexts ==
    { <<>>, <<WhiteSpace>>, <<Junk>>, <<BadBytes>>, <<Chunk("array", "", Cars0)>>,
      JsonDumps(SeedDoc), <<WhiteSpace>> \o JsonDumps(<<>>) }
InitFiles == {NoFile} \cup {FileOf(t) : t \in InitTexts}

StoredDoc == ReadResult(file.exists, FALSE, file.text)
StoredBookings == DictGet(StoredDoc.doc, "bookings", <<>>)

\* a marker left behind by a process that died before the program started
StaleMarker == [exists |-> TRUE, pid |-> 9, by |-> 0]

\* request.client: an address, or None
Clients == {[present |-> TRUE, host |-> "10.0.0.1"], [present |-> FALSE, host |-> ""]}
\* request.client.host if request.client else "unknown"
ClientIp(client) == IF client.present THEN client.host ELSE "unknown"
ClientIps == {ClientIp(client) : client \in Clients}
NoAnswer == [path |-> "", ip |-> "", status |-> "none"]

InitCommon ==
    /\ marker \in {NoMarker, StaleMarker}
    /\ tmp = [c \in Callers |-> NoFile]
    /\ mutex = [p \in Procs |-> 0]
    /\ alive = [p \in Procs |-> TRUE]
    /\ pc = [c \in Callers |-> "idle"]
    /\ op = [c \in Callers |-> "none"]
    /\ fn = [c \in Callers |-> "none"]
    /\ elapsed = [c \in Callers |-> 0]
    /\ fd = [c \in Callers |-> FALSE]
    /\ payload = [c \in Callers |-> <<>>]
    /\ cur = [c \in Callers |-> <<>>]
    /\ res = [c \in Callers |-> Ok(<<>>)]
    /\ task = [c \in Callers |-> "none"]
    /\ req = [c \in Callers |-> NoBooking]
    /\ arg = [c \in Callers |-> <<>>]
    /\ stage = [c \in Callers |-> "none"]
    /\ out = [c \in Callers |-> "none"]
    /\ checked = [c \in Callers |-> {}]
    /\ avail = [c \in Callers |-> <<>>]
    /\ committed = StoredBookings
    /\ acked = {}
    /\ lastWritten = [set |-> FALSE, doc |-> <<>>]
    /\ clock = 0
    /\ requests = [ip \in ClientIps |-> <<>>]
    /\ handled = [ip \in ClientIps |-> [t \in 0..MaxClock |-> 0]]
    /\ answer = NoAnswer

\* the store under concurrent repository calls: no file yet, or the seeded one
Init ==
    /\ file \in {NoFile, FileOf(JsonDumps(SeedDoc))}
    /\ faults = 0
    /\ InitCommon

\* the store over whatever the data file may hold
InitFile ==
    /\ file \in InitFiles
    /\ faults = 0
    /\ InitCommon

\* ------------------------------------------------------- the lock protocol
Live(c) == alive[ProcOf(c)]
At(c, where) == Live(c) /\ pc[c] = where
CanFail == faults < MaxFaults

\* the caller's JsonStore is on a path of its own, not on the data file's
OnOtherPath(c) == task[c] = "read_other"
\* mutant: the stores of one path share a mutex, the stores of two paths do not
MutexFreePerPath(c) ==
    IF mutex[ProcOf(c)] = 0 THEN TRUE
    ELSE OnOtherPath(mutex[ProcOf(c)]) # OnOtherPath(c)
\* _mutex: Lock = Lock(): one lock, the default of the class, for every
\* JsonStore of the process
MutexFree(c) == mutex[ProcOf(c)] = 0

\* with self._mutex: threading.Lock.acquire(), no timeout
AcquireMutex(c) ==
    /\ At(c, "mutex")
    /\ MutexFree(c)
    /\ mutex' = [mutex EXCEPT ![ProcOf(c)] = c]
    /\ elapsed' = [elapsed EXCEPT ![c] = 0]
    /\ pc' = [pc EXCEPT ![c] = "lock_open"]
    /\ UNCHANGED <<fsVars, alive, op, fn, fd, payload, cur, res, taskVars, envVars, limiterVars,
                   histVars>>

\* mutant: the marker is opened without O_EXCL
OpenSucceedsNoExcl == TRUE
\* os.open(O_CREAT | O_EXCL) succeeds exactly when the marker does not exist
OpenSucceeds == ~marker.exists
\* mutant: the elapsed time is compared with 0, not with the timeout
TimedOutAtOnce(c) == elapsed[c] >= 0
\* mutant: the timeout is never reached
TimedOutNever(c) == FALSE
\* mutant: the timeout is compared with >, not >=
TimedOutLate(c) == elapsed[c] > LockTimeoutTicks
\* (time.monotonic() - start) >= self.lock_timeout_s
TimedOut(c) == elapsed[c] >= LockTimeoutTicks

OpenCreates(c) ==
    /\ At(c, "lock_open")
    /\ OpenSucceeds
    /\ marker' = [exists |-> TRUE, pid |-> 0, by |-> c]
    /\ fd' = [fd EXCEPT ![c] = TRUE]
    /\ pc' = [pc EXCEPT ![c] = "lock_pid"]
    /\ UNCHANGED <<file, tmp, procVars, op, fn, elapsed, payload, cur, res, taskVars,
                   envVars, limiterVars, histVars>>

\* FileExistsError before the timeout: time.sleep(poll interval)
OpenExistsPoll(c) ==
    /\ At(c, "lock_open")
    /\ ~OpenSucceeds
    /\ ~TimedOut(c)
    /\ pc' = [pc EXCEPT ![c] = "lock_sleep"]
    /\ UNCHANGED <<fsVars, procVars, op, fn, elapsed, fd, payload, cur, res, taskVars,
                   envVars, limiterVars, histVars>>

\* variant: the timeout raised inside the try/finally, which unlinks the marker
OpenExistsTimeoutUnlinks(c) ==
    /\ At(c, "lock_open")
    /\ ~OpenSucceeds
    /\ TimedOut(c)
    /\ res' = [res EXCEPT ![c] = Raise("JsonStoreError")]
    /\ marker' = NoMarker
    /\ pc' = [pc EXCEPT ![c] = "release"]
    /\ UNCHANGED <<file, tmp, procVars, op, fn, elapsed, fd, payload, cur, taskVars,
                   envVars, limiterVars, histVars>>

\* FileExistsError at or after the timeout: JsonStoreError, raised before the
\* try/finally that removes the marker
OpenExistsTimeout(c) ==
    /\ At(c, "lock_open")
    /\ ~OpenSucceeds
    /\ TimedOut(c)
    /\ res' = [res EXCEPT ![c] = Raise("JsonStoreError")]
    /\ pc' = [pc EXCEPT ![c] = "release"]
    /\ UNCHANGED <<fsVars, procVars, op, fn, elapsed, fd, payload, cur, taskVars,
                   envVars, limiterVars, histVars>>

\* time.sleep returns after at least the poll interval
Sleep(c) ==
    /\ At(c, "lock_sleep")
    /\ \E d \in {1, 2} :
          elapsed' = [elapsed EXCEPT ![c] =
                          IF @ + d > LockTimeoutTicks THEN LockTimeoutTicks + 1 ELSE @ + d]
    /\ pc' = [pc EXCEPT ![c] = "lock_open"]
    /\ UNCHANGED <<fsVars, procVars, op, fn, fd, payload, cur, res, taskVars, envVars, limiterVars,
                   histVars>>

\* os.write(fd, pid), then the body of the with statement begins
WritePid(c) ==
    /\ At(c, "lock_pid")
    /\ marker' = [marker EXCEPT !.pid = ProcOf(c)]
    /\ pc' = [pc EXCEPT ![c] = IF op[c] = "write" THEN "tmp_create" ELSE "cs"]
    /\ UNCHANGED <<file, tmp, procVars, op, fn, elapsed, fd, payload, cur, res,
                   taskVars, envVars, limiterVars, histVars>>

\* os.write raises OSError (disk full): not a FileExistsError, so it leaves
\* the loop before the try/finally; the descriptor is never closed and the
\* marker is not unlinked
WritePidFails(c) ==
    /\ At(c, "lock_pid")
    /\ CanFail
    /\ faults' = faults + 1
    /\ UNCHANGED limiterVars
    /\ fd' = [fd EXCEPT ![c] = FALSE]
    /\ res' = [res EXCEPT ![c] = Raise("OSError")]
    /\ pc' = [pc EXCEPT ![c] = "release"]
    /\ UNCHANGED <<fsVars, procVars, op, fn, elapsed, payload, cur, taskVars,
                   histVars>>

\* the finally of _lock_file: os.close(fd), unlink(missing_ok=True)
Unlock(c) ==
    /\ At(c, "unlock")
    /\ fd' = [fd EXCEPT ![c] = FALSE]
    /\ marker' = NoMarker
    /\ pc' = [pc EXCEPT ![c] = "release"]
    /\ UNCHANGED <<file, tmp, procVars, op, fn, elapsed, payload, cur, res, taskVars,
                   envVars, limiterVars, histVars>>

\* the calls of the booking service, which make store operations through the
\* repositories
ServiceTasks == {"create_booking", "available_cars"}
\* the queries of the repositories, each one store read
RepoQueries ==
    {"cars.list_all", "cars.get_by_id", "bookings.list_all", "bookings.list_by_car_id",
     "bookings.list_by_dates"}

\* the mutex's __exit__; the store operation returns or raises res[c]: a
\* repository or store call made directly ends here, a call made by the
\* booking service goes back to the service
Release(c) ==
    /\ At(c, "release")
    /\ mutex' = [mutex EXCEPT ![ProcOf(c)] = 0]
    /\ IF task[c] \in ServiceTasks \cup RepoQueries
       THEN /\ pc' = [pc EXCEPT ![c] = "ret"]
            /\ UNCHANGED <<op, fn, elapsed, payload, cur, res, task, req, arg>>
       ELSE /\ pc' = [pc EXCEPT ![c] = "done"]
            /\ op' = [op EXCEPT ![c] = "none"]
            /\ fn' = [fn EXCEPT ![c] = "none"]
            /\ elapsed' = [elapsed EXCEPT ![c] = 0]
            /\ payload' = [payload EXCEPT ![c] = <<>>]
            /\ cur' = [cur EXCEPT ![c] = <<>>]
            /\ res' = [res EXCEPT ![c] = Ok(<<>>)]
            /\ task' = [task EXCEPT ![c] = "none"]
            /\ req' = [req EXCEPT ![c] = NoBooking]
            /\ arg' = [arg EXCEPT ![c] = <<>>]
    /\ acked' = IF task[c] = "add" /\ res[c].err = "none"
                THEN acked \cup {req[c].id} ELSE acked
    /\ UNCHANGED <<fsVars, alive, fd, stage, out, checked, avail, envVars, limiterVars, committed,
                   lastWritten>>

\* ---------------------------------------------------- the critical sections
\* the body of read(): exists(), read_text, strip, json.loads
ReadBody(c) ==
    /\ At(c, "cs")
    /\ op[c] = "read"
    /\ \E ioerror \in {FALSE} \cup {x \in {TRUE} : CanFail /\ file.exists} :
          /\ res' = [res EXCEPT ![c] = ReadResult(file.exists, ioerror, file.text)]
          /\ faults' = IF ioerror THEN faults + 1 ELSE faults
          /\ UNCHANGED limiterVars
    /\ pc' = [pc EXCEPT ![c] = "unlock"]
    /\ UNCHANGED <<fsVars, procVars, op, fn, elapsed, fd, payload, cur, taskVars,
                   histVars>>

\* update(): current = self.read_unlocked()
UpdateRead(c) ==
    /\ At(c, "cs")
    /\ op[c] = "update"
    /\ \E ioerror \in {FALSE} \cup {x \in {TRUE} : CanFail /\ file.exists} :
          LET r == ReadResult(file.exists, ioerror, file.text)
          IN /\ res' = [res EXCEPT ![c] = r]
             /\ cur' = [cur EXCEPT ![c] = r.doc]
             /\ pc' = [pc EXCEPT ![c] = IF r.err = "none" THEN "fn" ELSE "unlock"]
             /\ faults' = IF ioerror THEN faults + 1 ELSE faults
             /\ UNCHANGED limiterVars
    /\ UNCHANGED <<fsVars, procVars, op, fn, elapsed, fd, payload, taskVars,
                   histVars>>

\* mutant: the bookings array is replaced, not appended to
AppendBookingReplacing(data, b) == DictSet(data, "bookings", <<ModelDump(b)>>)
\* mutant: the booking is put in front of the array
AppendBookingFront(data, b) ==
    DictSet(data, "bookings", <<ModelDump(b)>> \o DictGet(data, "bookings", <<>>))
\* FileBookingRepository.add's _append_booking(data)
AppendBooking(data, b) ==
    DictSet(data, "bookings", Append(DictGet(data, "bookings", <<>>), ModelDump(b)))

\* mutant: the result of fn is not checked
IsInstanceDictAlways(f) == TRUE
\* isinstance(updated, dict), for the value the function f returns
IsInstanceDict(f) == f # "notdict"

\* update(): updated = fn(current); the isinstance check; then
\* write_unlocked's payload = json.dumps(updated, ...); a function that
\* returns no dict returns a list
UpdateFn(c) ==
    /\ At(c, "fn")
    /\ IF fn[c] = "raise"
       THEN /\ res' = [res EXCEPT ![c] = Raise("FnError")]
            /\ pc' = [pc EXCEPT ![c] = "unlock"]
            /\ UNCHANGED payload
       ELSE IF ~IsInstanceDict(fn[c])
       THEN /\ res' = [res EXCEPT ![c] = Raise("TypeError")]
            /\ pc' = [pc EXCEPT ![c] = "unlock"]
            /\ UNCHANGED payload
       ELSE LET updated == IF fn[c] = "append" THEN AppendBooking(cur[c], req[c])
                           ELSE <<>>
            IN /\ res' = [res EXCEPT ![c] = Ok(updated)]
               /\ payload' = [payload EXCEPT ![c] =
                                  IF fn[c] = "append" THEN JsonDumps(updated)
                                  ELSE <<Chunk("array", "", <<>>)>>]
               /\ pc' = [pc EXCEPT ![c] = "tmp_create"]
    /\ UNCHANGED <<fsVars, procVars, op, fn, elapsed, fd, cur, taskVars, envVars, limiterVars,
                   histVars>>

\* NamedTemporaryFile(dir=parent, delete=False)
TmpCreate(c) ==
    /\ At(c, "tmp_create")
    /\ tmp' = [tmp EXCEPT ![c] = FileOf(<<>>)]
    /\ pc' = [pc EXCEPT ![c] = "tmp_write"]
    /\ UNCHANGED <<file, marker, procVars, op, fn, elapsed, fd, payload, cur, res,
                   taskVars, envVars, limiterVars, histVars>>

\* mutant: the payload is written over the target itself
WriteTargetInPlace(c) == "target"
\* the file the payload is written to: the temporary file
WriteTarget(c) == "tmp"

\* tmp.write(payload): part of the payload reaches the file
TmpWrite(c) ==
    /\ At(c, "tmp_write")
    /\ LET part == SubSeq(payload[c], 1, Len(payload[c]) - 1)
       IN IF WriteTarget(c) = "tmp"
          THEN tmp' = [tmp EXCEPT ![c] = FileOf(part)] /\ UNCHANGED file
          ELSE file' = FileOf(part) /\ UNCHANGED tmp
    /\ pc' = [pc EXCEPT ![c] = "tmp_flush"]
    /\ UNCHANGED <<marker, procVars, op, fn, elapsed, fd, payload, cur, res,
                   taskVars, envVars, limiterVars, histVars>>

\* tmp.flush(): the rest of the payload
TmpFlush(c) ==
    /\ At(c, "tmp_flush")
    /\ IF WriteTarget(c) = "tmp"
       THEN tmp' = [tmp EXCEPT ![c] = FileOf(payload[c])] /\ UNCHANGED file
       ELSE file' = FileOf(payload[c]) /\ UNCHANGED tmp
    /\ pc' = [pc EXCEPT ![c] = "tmp_fsync"]
    /\ UNCHANGED <<marker, procVars, op, fn, elapsed, fd, payload, cur, res,
                   taskVars, envVars, limiterVars, histVars>>

\* os.fsync(tmp.fileno()), and the temporary file is closed
TmpFsync(c) ==
    /\ At(c, "tmp_fsync")
    /\ pc' = [pc EXCEPT ![c] = "replace"]
    /\ UNCHANGED <<fsVars, procVars, op, fn, elapsed, fd, payload, cur, res, taskVars,
                   envVars, limiterVars, histVars>>

\* os.replace(tmp_path, self.path)
Replace(c) ==
    /\ At(c, "replace")
    /\ file' = FileOf(tmp[c].text)
    /\ tmp' = [tmp EXCEPT ![c] = NoFile]
    /\ pc' = [pc EXCEPT ![c] = "fsync_dir"]
    /\ committed' = IF op[c] = "update" THEN Append(committed, ModelDump(req[c]))
                    ELSE committed
    /\ lastWritten' = [set |-> op[c] = "write",
                       doc |-> IF op[c] = "write" THEN arg[c] ELSE <<>>]
    /\ UNCHANGED <<marker, procVars, op, fn, elapsed, fd, payload, cur, res, taskVars,
                   envVars, limiterVars, acked>>

\* write() calls self._fysync_dir, which JsonStore does not define:
\* AttributeError, not an OSError; write_unlocked calls self._fsync_dir,
\* which swallows every OSError
FsyncDir(c) ==
    /\ At(c, "fsync_dir")
    /\ res' = [res EXCEPT ![c] = IF op[c] = "write" THEN Raise("AttributeError") ELSE @]
    /\ pc' = [pc EXCEPT ![c] = "cleanup"]
    /\ UNCHANGED <<fsVars, procVars, op, fn, elapsed, fd, payload, cur, taskVars,
                   envVars, limiterVars, histVars>>

\* an OSError at temp creation, write, flush, fsync or rename: JsonStoreError
WriteStepFails(c) ==
    /\ Live(c)
    /\ pc[c] \in {"tmp_create", "tmp_write", "tmp_flush", "tmp_fsync", "replace"}
    /\ CanFail
    /\ faults' = faults + 1
    /\ UNCHANGED limiterVars
    /\ res' = [res EXCEPT ![c] = Raise("JsonStoreError")]
    /\ pc' = [pc EXCEPT ![c] = "cleanup"]
    /\ UNCHANGED <<fsVars, procVars, op, fn, elapsed, fd, payload, cur, taskVars,
                   histVars>>

\* mutant: the finally clause does not unlink the temporary file
CleanupKeeps(c) ==
    /\ At(c, "cleanup")
    /\ pc' = [pc EXCEPT ![c] = "unlock"]
    /\ UNCHANGED <<fsVars, procVars, op, fn, elapsed, fd, payload, cur, res,
                   taskVars, envVars, limiterVars, histVars>>
\* finally: if tmp_path and tmp_path.exists(): tmp_path.unlink()
Cleanup(c) ==
    /\ At(c, "cleanup")
    /\ tmp' = [tmp EXCEPT ![c] = NoFile]
    /\ pc' = [pc EXCEPT ![c] = "unlock"]
    /\ UNCHANGED <<file, marker, procVars, op, fn, elapsed, fd, payload, cur, res,
                   taskVars, envVars, limiterVars, histVars>>

\* the process dies while one of its threads is in a store operation: its
\* threads are gone, its descriptors are closed, its files stay
Crash(p) ==
    /\ alive[p]
    /\ CanFail
    /\ mutex[p] # 0
    /\ alive' = [alive EXCEPT ![p] = FALSE]
    /\ mutex' = [mutex EXCEPT ![p] = 0]
    /\ faults' = faults + 1
    /\ UNCHANGED limiterVars
    /\ pc' = [c \in Callers |-> IF ProcOf(c) = p THEN "crashed" ELSE pc[c]]
    /\ op' = [c \in Callers |-> IF ProcOf(c) = p THEN "none" ELSE op[c]]
    /\ fn' = [c \in Callers |-> IF ProcOf(c) = p THEN "none" ELSE fn[c]]
    /\ elapsed' = [c \in Callers |-> IF ProcOf(c) = p THEN 0 ELSE elapsed[c]]
    /\ fd' = [c \in Callers |-> IF ProcOf(c) = p THEN FALSE ELSE fd[c]]
    /\ payload' = [c \in Callers |-> IF ProcOf(c) = p THEN <<>> ELSE payload[c]]
    /\ cur' = [c \in Callers |-> IF ProcOf(c) = p THEN <<>> ELSE cur[c]]
    /\ res' = [c \in Callers |-> IF ProcOf(c) = p THEN Ok(<<>>) ELSE res[c]]
    /\ task' = [c \in Callers |-> IF ProcOf(c) = p THEN "none" ELSE task[c]]
    /\ req' = [c \in Callers |-> IF ProcOf(c) = p THEN NoBooking ELSE req[c]]
    /\ arg' = [c \in Callers |-> IF ProcOf(c) = p THEN <<>> ELSE arg[c]]
    /\ stage' = [c \in Callers |-> IF ProcOf(c) = p THEN "none" ELSE stage[c]]
    /\ checked' = [c \in Callers |-> IF ProcOf(c) = p THEN {} ELSE checked[c]]
    /\ UNCHANGED <<out, avail>>
    /\ UNCHANGED <<fsVars, histVars>>

\* acquiring and releasing the two locks
LockStep(c) ==
    \/ AcquireMutex(c)
    \/ OpenCreates(c)
    \/ OpenExistsPoll(c)
    \/ OpenExistsTimeout(c)
    \/ Sleep(c)
    \/ WritePid(c)
    \/ Unlock(c)
    \/ Release(c)

\* the temp-file protocol of write and write_unlocked
WriteStep(c) ==
    \/ TmpCreate(c)
    \/ TmpWrite(c)
    \/ TmpFlush(c)
    \/ TmpFsync(c)
    \/ Replace(c)
    \/ FsyncDir(c)
    \/ Cleanup(c)

\* an I/O failure inside a store operation
Fault(c) ==
    \/ WritePidFails(c)
    \/ WriteStepFails(c)

\* ------------------------------------------------ callers of the store
Sample == [id |-> 9, car_id |-> 2, start_date |-> 1, end_date |-> 1,
           customer_name |-> "seed"]
WriteDocs ==
    { SeedDoc,
      <<[k |-> "meta", v |-> <<>>], [k |-> "bookings", v |-> <<ModelDump(Sample)>>]>> }

Begin(c, t, o, f) ==
    /\ At(c, "idle")
    /\ task' = [task EXCEPT ![c] = t]
    /\ op' = [op EXCEPT ![c] = o]
    /\ fn' = [fn EXCEPT ![c] = f]
    /\ res' = [res EXCEPT ![c] = Ok(<<>>)]
    /\ pc' = [pc EXCEPT ![c] = "mutex"]
    /\ UNCHANGED <<stage, out, checked, avail>>

\* JsonStore.read()
CallRead(c) ==
    /\ Begin(c, "read", "read", "none")
    /\ UNCHANGED <<fsVars, procVars, elapsed, fd, payload, cur, req, arg, envVars, limiterVars,
                   histVars>>

\* JsonStore.write(data): the payload is serialized before the locks are taken
CallWrite(c) ==
    /\ \E d \in WriteDocs :
          /\ arg' = [arg EXCEPT ![c] = d]
          /\ payload' = [payload EXCEPT ![c] = JsonDumps(d)]
    /\ Begin(c, "write", "write", "none")
    /\ UNCHANGED <<fsVars, procVars, elapsed, fd, cur, req, envVars, limiterVars, histVars>>

\* JsonStore.update(fn) with an fn that raises or returns no dict
CallUpdate(c) ==
    /\ \E f \in {"raise", "notdict"} : Begin(c, "update", "update", f)
    /\ UNCHANGED <<fsVars, procVars, elapsed, fd, payload, cur, req, arg, envVars, limiterVars,
                   histVars>>

\* FileBookingRepository.add(booking), each call with a booking of its own
CallAdd(c) ==
    /\ req' = [req EXCEPT ![c] =
                  [id |-> c, car_id |-> 1, start_date |-> 1,
                   end_date |-> 2, customer_name |-> "x"]]
    /\ Begin(c, "add", "update", "append")
    /\ UNCHANGED <<fsVars, procVars, elapsed, fd, payload, cur, arg, envVars, limiterVars,
                   histVars>>

\* ------------------------------------------------- the booking service
\* mutant: ranges that share only their end days do not count as overlapping
OverlapsStrict(start1, end1, start2, end2) == ~(end1 <= start2 \/ end2 <= start1)
\* BookingService._overlaps
Overlaps(start1, end1, start2, end2) == ~(end1 < start2 \/ end2 < start1)

\* mutant: every car id is found
CarFoundAlways(data, car_id) == TRUE
\* mutant: a car id is found as soon as the fleet has a car
CarFoundAny(data, car_id) == DictGet(data, "cars", <<>>) # <<>>
\* FileCarRepository.get_by_id found a car
CarFound(data, car_id) ==
    LET cars == DictGet(data, "cars", <<>>)
    IN \E i \in 1..Len(cars) : cars[i].id = car_id

\* mutant: the bookings are not filtered by car
ListByCarIdAll(data, car_id) ==
    LET raw == DictGet(data, "bookings", <<>>)
    IN [i \in 1..Len(raw) |-> ModelValidate(raw[i])]
\* FileBookingRepository.list_by_car_id
ListByCarId(data, car_id) ==
    LET raw == DictGet(data, "bookings", <<>>)
        OfCar(b) == b.car_id = car_id
        mine == SelectSeq(raw, OfCar)
    IN [i \in 1..Len(mine) |-> ModelValidate(mine[i])]

\* mutant: only the first booking of the car is compared
HasBookingConflictFirstOnly(existing, start_date, end_date) ==
    /\ existing # <<>>
    /\ Overlaps(existing[1].start_date, existing[1].end_date, start_date, end_date)
\* BookingService._has_booking_conflict, given the bookings of the car
HasBookingConflict(existing, start_date, end_date) ==
    \E i \in 1..Len(existing) :
        Overlaps(existing[i].start_date, existing[i].end_date, start_date, end_date)

\* the requests made of create_booking: car 1 exists, car 3 does not
Ranges == {<<1, 2>>, <<2, MaxDay>>, <<MaxDay, MaxDay>>, <<2, 1>>}
Requests ==
    {[car_id |-> 1, start_date |-> r[1], end_date |-> r[2]] : r \in Ranges}
        \cup {[car_id |-> 3, start_date |-> r[1], end_date |-> r[2]] :
                 r \in {<<1, 2>>, <<2, 1>>}}

\* mutant: no range is refused
InvalidRangeNever(start_date, end_date) == FALSE
\* create_booking: if end_date < start_date
InvalidRange(start_date, end_date) == end_date < start_date

\* a store operation begun by the service
StartStoreOp(c, o, f, st) ==
    /\ op' = [op EXCEPT ![c] = o]
    /\ fn' = [fn EXCEPT ![c] = f]
    /\ res' = [res EXCEPT ![c] = Ok(<<>>)]
    /\ stage' = [stage EXCEPT ![c] = st]
    /\ pc' = [pc EXCEPT ![c] = "mutex"]

\* create_booking ends: it returns the booking or raises
Finish(c, how) ==
    /\ out' = [out EXCEPT ![c] = how]
    /\ pc' = [pc EXCEPT ![c] = "done"]
    /\ op' = [op EXCEPT ![c] = "none"]
    /\ fn' = [fn EXCEPT ![c] = "none"]
    /\ res' = [res EXCEPT ![c] = Ok(<<>>)]
    /\ stage' = [stage EXCEPT ![c] = "none"]

\* create_booking: the date check, then car_repository.get_by_id(car_id);
\* booking_id is an argument of the call, one of ids
CreateBookingWith(c, ids) ==
    /\ At(c, "idle")
    /\ \E r \in Requests, id \in ids :
          /\ req' = [req EXCEPT ![c] =
                        [id |-> id, car_id |-> r.car_id,
                         start_date |-> r.start_date, end_date |-> r.end_date,
                         customer_name |-> "x"]]
          /\ task' = [task EXCEPT ![c] = "create_booking"]
          /\ IF InvalidRange(r.start_date, r.end_date)
             THEN Finish(c, "BookingServiceError")
             ELSE StartStoreOp(c, "read", "none", "get_by_id") /\ UNCHANGED out
    /\ UNCHANGED <<fsVars, procVars, elapsed, fd, payload, cur, arg, checked, avail, envVars,
                   limiterVars,
                   histVars>>

\* create_booking called with a booking id no other call uses
CallCreateBooking(c) == CreateBookingWith(c, {10 + c})

\* get_by_id returned: CarNotFoundError, or the conflict check's
\* booking_repository.list_by_car_id(car_id)
AfterGetById(c) ==
    /\ At(c, "ret")
    /\ stage[c] = "get_by_id"
    /\ IF res[c].err # "none" THEN Finish(c, res[c].err)
       ELSE IF ~CarFound(res[c].doc, req[c].car_id) THEN Finish(c, "CarNotFoundError")
       ELSE StartStoreOp(c, "read", "none", "list_by_car_id") /\ UNCHANGED out
    /\ UNCHANGED <<fsVars, procVars, elapsed, fd, payload, cur, task, req, arg, checked, avail,
                   envVars, limiterVars, histVars>>

\* list_by_car_id returned: BookingConflictError, or
\* booking_repository.add(new_booking)
AfterListByCarId(c) ==
    /\ At(c, "ret")
    /\ stage[c] = "list_by_car_id"
    /\ LET existing == ListByCarId(res[c].doc, req[c].car_id)
       IN /\ checked' = [checked EXCEPT ![c] =
                            IF res[c].err = "none"
                            THEN {existing[i].id : i \in 1..Len(existing)} ELSE {}]
          /\ IF res[c].err # "none" THEN Finish(c, res[c].err)
             ELSE IF HasBookingConflict(existing, req[c].start_date, req[c].end_date)
             THEN Finish(c, "BookingConflictError")
             ELSE StartStoreOp(c, "update", "append", "add") /\ UNCHANGED out
    /\ UNCHANGED <<fsVars, procVars, elapsed, fd, payload, cur, task, req, arg, avail, envVars,
                   limiterVars,
                   histVars>>

\* variant: the conflict is reported after add has run
AfterAddReportsConflict(c) ==
    /\ At(c, "ret")
    /\ stage[c] = "add"
    /\ Finish(c, IF res[c].err = "none" /\ req[c].start_date = req[c].end_date
                 THEN "BookingConflictError"
                 ELSE IF res[c].err = "none" THEN "created" ELSE res[c].err)
    /\ UNCHANGED <<fsVars, procVars, elapsed, fd, payload, cur, task, req, arg, checked, avail,
                   envVars, limiterVars, histVars>>

\* add returned: create_booking returns the booking
AfterAdd(c) ==
    /\ At(c, "ret")
    /\ stage[c] = "add"
    /\ Finish(c, IF res[c].err = "none" THEN "created" ELSE res[c].err)
    /\ UNCHANGED <<fsVars, procVars, elapsed, fd, payload, cur, task, req, arg, checked, avail,
                   envVars, limiterVars, histVars>>

ServiceStep(c) ==
    \/ AfterGetById(c)
    \/ AfterListByCarId(c)
    \/ AfterAdd(c)

\* the seeded file: two cars, and bookings that do not overlap
SeedBookings ==
    <<[id |-> 1, car_id |-> 1, start_date |-> 1, end_date |-> 1, customer_name |-> "a"],
      [id |-> 2, car_id |-> 2, start_date |-> 1, end_date |-> MaxDay,
       customer_name |-> "b"]>>
BookedDoc ==
    <<[k |-> "cars", v |-> Cars0],
      [k |-> "bookings", v |-> [i \in 1..Len(SeedBookings) |-> ModelDump(SeedBookings[i])]]>>

\* create_booking calls on the seeded file, with no I/O failure and no crash
InitBooking ==
    /\ file \in {FileOf(JsonDumps(SeedDoc)), FileOf(JsonDumps(BookedDoc))}
    /\ faults = MaxFaults
    /\ InitCommon

\* callers of create_booking in two processes, concurrently
BookingCallers == {1, 3}
NextBooking ==
    \/ \E c \in BookingCallers : LockStep(c)
    \/ \E c \in BookingCallers : ReadBody(c)
    \/ \E c \in BookingCallers : UpdateRead(c)
    \/ \E c \in BookingCallers : UpdateFn(c)
    \/ \E c \in BookingCallers : WriteStep(c)
    \/ \E c \in BookingCallers : CallCreateBooking(c)
    \/ \E c \in BookingCallers : ServiceStep(c)

SpecBooking == InitBooking /\ [][NextBooking]_vars

\* no create_booking call is under way
NoCallUnderWay == \A c \in Callers : pc[c] \in {"idle", "done"}

\* create_booking calls one at a time: each ends before the next begins
NextSeq ==
    \/ \E c \in Callers : LockStep(c)
    \/ \E c \in Callers : ReadBody(c)
    \/ \E c \in Callers : UpdateRead(c)
    \/ \E c \in Callers : UpdateFn(c)
    \/ \E c \in Callers : WriteStep(c)
    \/ \E c \in Callers : NoCallUnderWay /\ CallCreateBooking(c)
    \/ \E c \in Callers : ServiceStep(c)

SpecSeq == InitBooking /\ [][NextSeq]_vars

\* three concurrent callers of FileBookingRepository.add
Next ==
    \/ \E c \in Callers : LockStep(c)
    \/ \E c \in Callers : UpdateRead(c)
    \/ \E c \in Callers : UpdateFn(c)
    \/ \E c \in Callers : WriteStep(c)
    \/ \E c \in Callers : Fault(c)
    \/ \E c \in Callers : CallAdd(c)
    \/ \E p \in Procs : Crash(p)

Spec == Init /\ [][Next]_vars

\* one thread in each process reading, writing and updating the file
FileCallers == {1, 3}
NextFile ==
    \/ \E c \in FileCallers : LockStep(c)
    \/ \E c \in FileCallers : ReadBody(c)
    \/ \E c \in FileCallers : UpdateRead(c)
    \/ \E c \in FileCallers : UpdateFn(c)
    \/ \E c \in FileCallers : WriteStep(c)
    \/ \E c \in FileCallers : Fault(c)
    \/ \E c \in FileCallers : CallRead(c)
    \/ \E c \in FileCallers : CallWrite(c)
    \/ \E c \in FileCallers : CallUpdate(c)
    \/ \E c \in FileCallers : CallAdd(c)
    \/ \E p \in Procs : Crash(p)

SpecFile == InitFile /\ [][NextFile]_vars

\* the steps of a caller inside a store operation
CallerStep(c) ==
    \/ LockStep(c)
    \/ UpdateRead(c)
    \/ UpdateFn(c)
    \/ WriteStep(c)

\* the concurrent callers under fair scheduling: a thread that can take a
\* step eventually takes one
FairSpec == Spec /\ \A c \in Callers : WF_vars(CallerStep(c))


\* the booking ids callers hand to create_booking: one already in the seeded
\* file, one new; create_booking takes the id as given
IdInputs == {1, 11}
CallCreateBookingAnyId(c) == CreateBookingWith(c, IdInputs)

\* create_booking calls one at a time, the booking id chosen by the caller
NextIds ==
    \/ \E c \in BookingCallers : LockStep(c)
    \/ \E c \in BookingCallers : ReadBody(c)
    \/ \E c \in BookingCallers : UpdateRead(c)
    \/ \E c \in BookingCallers : UpdateFn(c)
    \/ \E c \in BookingCallers : WriteStep(c)
    \/ \E c \in BookingCallers : NoCallUnderWay /\ CallCreateBookingAnyId(c)
    \/ \E c \in BookingCallers : ServiceStep(c)

SpecIds == InitBooking /\ [][NextIds]_vars

\* --------------------------------------- available_cars and the HTTP handler
\* Car.model_validate(car)
CarValidate(j) == [id |-> j.id, make |-> j.make, model |-> j.model]
\* FileCarRepository.list_all, given the document read
ListAllCars(data) ==
    LET raw == DictGet(data, "cars", <<>>)
    IN [i \in 1..Len(raw) |-> CarValidate(raw[i])]

\* available_cars(target_date): cars = list(self.car_repository.list_all())
CallAvailableCars(c) ==
    /\ At(c, "idle")
    /\ \E d \in Days :
          req' = [req EXCEPT ![c] = [NoBooking EXCEPT !.start_date = d, !.end_date = d]]
    /\ task' = [task EXCEPT ![c] = "available_cars"]
    /\ StartStoreOp(c, "read", "none", "list_all")
    /\ UNCHANGED <<fsVars, procVars, elapsed, fd, payload, cur, arg, out, checked, avail,
                   envVars, limiterVars, histVars>>

\* list_all returned: with no cars available_cars returns []; otherwise it
\* calls self.booking_repository.list_by_date, a method FileBookingRepository
\* does not have (it defines list_by_dates): AttributeError
AfterListAll(c) ==
    /\ At(c, "ret")
    /\ stage[c] = "list_all"
    /\ IF res[c].err # "none" THEN Finish(c, res[c].err)
       ELSE IF ListAllCars(res[c].doc) = <<>> THEN Finish(c, "returned")
       ELSE Finish(c, "AttributeError")
    /\ avail' = [avail EXCEPT ![c] = <<>>]
    /\ UNCHANGED <<fsVars, procVars, elapsed, fd, payload, cur, task, req, arg, checked,
                   envVars, limiterVars, histVars>>

\* the bodies POSTed to /api/bookings
ApiRequests ==
    {[car_id |-> k, start_date |-> r[1], end_date |-> r[2]] :
        k \in {0, 1, 3}, r \in {<<1, 2>>, <<2, 1>>, <<MaxDay, MaxDay>>}}
\* CreateBookingRequest: car_id >= 1 and validate_date_range
SchemaValid(r) == r.car_id >= 1 /\ ~(r.end_date < r.start_date)

\* POST /api/bookings: a body the schema refuses is answered 422 by the
\* framework; otherwise the handler calls service.create_booking without the
\* required keyword booking_id: TypeError, which no except clause of the
\* handler catches, so the answer is 500 and the service body never runs
PostBooking(c) ==
    /\ At(c, "idle")
    /\ \E r \in ApiRequests :
          /\ req' = [req EXCEPT ![c] =
                        [id |-> 0, car_id |-> r.car_id, start_date |-> r.start_date,
                         end_date |-> r.end_date, customer_name |-> "x"]]
          /\ Finish(c, IF SchemaValid(r) THEN "500" ELSE "422")
    /\ task' = [task EXCEPT ![c] = "post_booking"]
    /\ UNCHANGED <<fsVars, procVars, elapsed, fd, payload, cur, arg, checked, avail,
                   envVars, limiterVars, histVars>>

\* a fleet without cars
NoCarsDoc == <<[k |-> "cars", v |-> <<>>], [k |-> "bookings", v |-> <<>>]>>

\* requests served over a seeded file, with no I/O failure and no crash
InitApi ==
    /\ file \in {NoFile, FileOf(JsonDumps(NoCarsDoc)), FileOf(JsonDumps(BookedDoc))}
    /\ faults = MaxFaults
    /\ InitCommon

\* two processes serving GET /api/cars/available and POST /api/bookings
ApiCallers == {1, 3}
NextApi ==
    \/ \E c \in ApiCallers : LockStep(c)
    \/ \E c \in ApiCallers : ReadBody(c)
    \/ \E c \in ApiCallers : CallAvailableCars(c)
    \/ \E c \in ApiCallers : AfterListAll(c)
    \/ \E c \in ApiCallers : PostBooking(c)

SpecApi == InitApi /\ [][NextApi]_vars


\* ------------------------------------------------- repository queries
\* FileBookingRepository.list_all
ListAllBookings(data) ==
    LET raw == DictGet(data, "bookings", <<>>)
    IN [i \in 1..Len(raw) |-> ModelValidate(raw[i])]
\* FileBookingRepository.list_by_dates: the ISO strings are compared
ListByDates(data, target_date) ==
    LET raw == DictGet(data, "bookings", <<>>)
        target_date_str == IsoFormat(target_date)
        Covers(b) == StrLeq(b.start_date, target_date_str)
                         /\ StrLeq(target_date_str, b.end_date)
        hits == SelectSeq(raw, Covers)
    IN [i \in 1..Len(hits) |-> ModelValidate(hits[i])]
\* FileCarRepository.get_by_id: the first car with the id, as a list of at
\* most one car (None is the empty list)
GetById(data, car_id) ==
    LET raw == DictGet(data, "cars", <<>>)
        HasId(car) == car.id = car_id
        hits == SelectSeq(raw, HasId)
    IN IF hits = <<>> THEN <<>> ELSE <<CarValidate(hits[1])>>

\* what the query q returns for the document data and the arguments in b
QueryResult(q, data, b) ==
    IF q = "cars.list_all" THEN ListAllCars(data)
    ELSE IF q = "cars.get_by_id" THEN GetById(data, b.car_id)
    ELSE IF q = "bookings.list_all" THEN ListAllBookings(data)
    ELSE IF q = "bookings.list_by_car_id" THEN ListByCarId(data, b.car_id)
    ELSE ListByDates(data, b.start_date)

\* a repository query called directly: data = self._json_store.read()
CallQuery(c) ==
    /\ At(c, "idle")
    /\ \E q \in RepoQueries, k \in {1, 3}, d \in {1, MaxDay} :
          /\ task' = [task EXCEPT ![c] = q]
          /\ req' = [req EXCEPT ![c] =
                        [NoBooking EXCEPT !.car_id = k, !.start_date = d, !.end_date = d]]
    /\ StartStoreOp(c, "read", "none", "query")
    /\ UNCHANGED <<fsVars, procVars, elapsed, fd, payload, cur, arg, out, checked, avail,
                   envVars, limiterVars, histVars>>

\* the read returned: the query returns its list or hands on the error
AfterQuery(c) ==
    /\ At(c, "ret")
    /\ stage[c] = "query"
    /\ IF res[c].err # "none"
       THEN Finish(c, res[c].err) /\ UNCHANGED avail
       ELSE /\ Finish(c, "returned")
            /\ avail' = [avail EXCEPT ![c] = QueryResult(task[c], res[c].doc, req[c])]
    /\ UNCHANGED <<fsVars, procVars, elapsed, fd, payload, cur, task, req, arg, checked,
                   envVars, limiterVars, histVars>>

\* repository queries over whatever the data file may hold, with no I/O
\* failure and no crash
InitRepo ==
    /\ file \in InitFiles \cup {FileOf(JsonDumps(BookedDoc))}
    /\ faults = MaxFaults
    /\ InitCommon

\* one caller at a time: the queries do not write
RepoCallers == {1}
NextRepo ==
    \/ \E c \in RepoCallers : LockStep(c)
    \/ \E c \in RepoCallers : ReadBody(c)
    \/ \E c \in RepoCallers : CallQuery(c)
    \/ \E c \in RepoCallers : AfterQuery(c)

SpecRepo == InitRepo /\ [][NextRepo]_vars

\* ------------------------------------------------- stores on two paths
\* read() of a JsonStore on another path, whose file does not exist
CallReadOther(c) ==
    /\ Begin(c, "read_other", "read", "none")
    /\ UNCHANGED <<fsVars, procVars, elapsed, fd, payload, cur, req, arg, envVars,
                   limiterVars, histVars>>

\* _lock_file on the other path: only this caller uses it, so os.open
\* creates its marker, which exists exactly while fd[c]
OtherOpen(c) ==
    /\ At(c, "lock_open")
    /\ fd' = [fd EXCEPT ![c] = TRUE]
    /\ pc' = [pc EXCEPT ![c] = "cs"]
    /\ UNCHANGED <<fsVars, procVars, op, fn, elapsed, payload, cur, res, taskVars, envVars,
                   limiterVars, histVars>>

\* if not self.path.exists(): return {}
OtherRead(c) ==
    /\ At(c, "cs")
    /\ res' = [res EXCEPT ![c] = Ok(<<>>)]
    /\ pc' = [pc EXCEPT ![c] = "unlock"]
    /\ UNCHANGED <<fsVars, procVars, op, fn, elapsed, fd, payload, cur, taskVars, envVars,
                   limiterVars, histVars>>

\* finally: os.close(fd), unlink of the other path's marker
OtherUnlock(c) ==
    /\ At(c, "unlock")
    /\ fd' = [fd EXCEPT ![c] = FALSE]
    /\ pc' = [pc EXCEPT ![c] = "release"]
    /\ UNCHANGED <<fsVars, procVars, op, fn, elapsed, payload, cur, res, taskVars, envVars,
                   limiterVars, histVars>>

\* the caller whose store is on the other path, in the process of caller 1
OtherCallers == {2}
\* two stores of one process on two paths, and a store of another process
NextStores ==
    \/ \E c \in Callers : ~OnOtherPath(c) /\ LockStep(c)
    \/ \E c \in Callers : ~OnOtherPath(c) /\ ReadBody(c)
    \/ \E c \in Callers : CallRead(c)
    \/ \E c \in OtherCallers : CallReadOther(c)
    \/ \E c \in OtherCallers : OnOtherPath(c) /\ AcquireMutex(c)
    \/ \E c \in OtherCallers : OnOtherPath(c) /\ OtherOpen(c)
    \/ \E c \in OtherCallers : OnOtherPath(c) /\ OtherRead(c)
    \/ \E c \in OtherCallers : OnOtherPath(c) /\ OtherUnlock(c)
    \/ \E c \in OtherCallers : OnOtherPath(c) /\ Release(c)

SpecStores == Init /\ [][NextStores]_vars

\* ------------------------------------------------- the rate limiter
\* the paths dispatch passes on without counting
ExemptPaths == {"/api/health", "/docs", "/redoc", "/openapi.json"}
Paths == ExemptPaths \cup {"/api/bookings", "/docs/"}

\* [t for t in self.requests[client_ip] if t > window_start]
Recent(times, window_start) ==
    LET Keep(t) == t > window_start IN SelectSeq(times, Keep)

\* mutant: one request more than the limit is let through
OverLimitByOne(n) == n > RequestsPerMinute
\* len(self.requests[client_ip]) >= self.requests_per_minute
OverLimit(n) == n >= RequestsPerMinute

\* RateLimitMiddleware.dispatch: no await between reading the clock and
\* recording the request, so one step; call_next is the request passed on
Dispatch(client, path) ==
    LET client_ip == ClientIp(client)
        window_start == clock - WindowTicks
        recent == Recent(requests[client_ip], window_start)
    IN /\ IF path \in ExemptPaths
          THEN /\ answer' = [path |-> path, ip |-> client_ip, status |-> "call_next"]
               /\ UNCHANGED <<requests, handled>>
          ELSE IF OverLimit(Len(recent))
          THEN /\ requests' = [requests EXCEPT ![client_ip] = recent]
               /\ answer' = [path |-> path, ip |-> client_ip, status |-> "429"]
               /\ UNCHANGED handled
          ELSE /\ requests' = [requests EXCEPT ![client_ip] = Append(recent, clock)]
               /\ handled' = [handled EXCEPT ![client_ip][clock] = @ + 1]
               /\ answer' = [path |-> path, ip |-> client_ip, status |-> "call_next"]
       /\ UNCHANGED <<clock, storeVars>>

\* time passes
Tick ==
    /\ clock < MaxClock
    /\ clock' = clock + 1
    /\ UNCHANGED <<requests, handled, answer, storeVars>>

InitLimiter ==
    /\ file = FileOf(JsonDumps(SeedDoc))
    /\ faults = 0
    /\ marker = NoMarker
    /\ InitCommon

NextLimiter ==
    \/ \E client \in Clients, path \in Paths : Dispatch(client, path)
    \/ Tick

SpecLimiter == InitLimiter /\ [][NextLimiter]_vars

\* ---------------------------------------------------------------- claims
\* between creating the marker and unlinking it
CriticalPcs ==
    {"lock_pid", "cs", "fn", "tmp_create", "tmp_write", "tmp_flush", "tmp_fsync",
     "replace", "fsync_dir", "cleanup", "unlock"}
InCritical(c) == Live(c) /\ pc[c] \in CriticalPcs
BookingIds(js) == {js[i].id : i \in 1..Len(js)}

\* C1: no lost updates.  Under concurrent add calls the bookings array of
\* the file is exactly the bookings of the updates that were renamed in, in
\* that order, each once; an add that returned normally has its booking in
\* the file, an add that raises has not; so when all N adds returned the
\* file holds exactly those N bookings.
NoLostUpdates ==
    /\ StoredDoc.err = "none"
    /\ StoredBookings = committed
    /\ Cardinality(BookingIds(committed)) = Len(committed)
    /\ acked \subseteq BookingIds(StoredBookings)
    /\ \A c \in Callers :
          (Live(c) /\ pc[c] = "release" /\ task[c] = "add") =>
              (res[c].err = "none" <=> req[c].id \in BookingIds(StoredBookings))
    /\ (acked = Callers) => Len(StoredBookings) = Cardinality(Callers)
\* all three adds returned, two of them from threads of one process
AllAddsReturned == acked = Callers /\ \A c \in Callers : pc[c] = "done"

\* C2: at most one caller, over all threads of all processes, is between
\* creating the marker and unlinking it, and that caller created the marker
\* that exists.
MutualExclusion ==
    /\ Cardinality({c \in Callers : InCritical(c)}) <= 1
    /\ \A c \in Callers : InCritical(c) => (marker.exists /\ marker.by = c)
\* one caller inside, a thread of the other process polling, a thread of
\* the same process queued on the mutex
ContendedCritical ==
    \E c, d, e \in Callers :
        /\ InCritical(c) /\ pc[c] = "replace"
        /\ ProcOf(d) # ProcOf(c) /\ pc[d] = "lock_sleep"
        /\ ProcOf(e) = ProcOf(c) /\ pc[e] = "mutex"

\* C5: the target changes only in the rename step of a write or update, and
\* then to the complete serialized document of that call; every other step,
\* failure and crash leaves it as it was.
AtomicReplacement ==
    [][file' # file =>
          \E c \in Callers :
              /\ pc[c] = "replace" /\ pc'[c] = "fsync_dir"
              /\ file' = FileOf(JsonDumps(IF op[c] = "write" THEN arg[c]
                                          ELSE res[c].doc))]_vars
\* a crash in the middle of a write left a partial temporary file, and the
\* target still holds a complete document
PartialTempAfterCrash ==
    \E c \in Callers :
        /\ ~Live(c)
        /\ tmp[c].exists /\ tmp[c].text # <<>> /\ ~JsonValid(tmp[c].text)
        /\ JsonValid(file.text)

\* C7: when a read, write or update of a live caller returns or raises, the
\* marker that call created no longer exists.
MarkerRemovedOnExit ==
    \A c \in Callers :
        (Live(c) /\ pc[c] \in {"release", "ret", "done"}) =>
            ~(marker.exists /\ marker.by = c)

\* C9: a read (and the read inside update) returns {} for a missing, empty
\* or whitespace-only file, raises JsonCorruptedError for any other content
\* that is not valid JSON, and never returns such content as a document; an
\* OSError of read_text is a JsonStoreError.
AllWhite(raw) == \A i \in 1..Len(raw) : raw[i].t = "ws"
ReadClaim(r) ==
    IF ~file.exists THEN r = Ok(<<>>)
    ELSE \/ r.err = "JsonStoreError"
         \/ IF AllWhite(file.text) THEN r = Ok(<<>>)
            ELSE IF ~JsonValid(file.text) THEN r.err = "JsonCorruptedError"
            ELSE r.err = "none"
ReadOutcomes ==
    [][\A c \in Callers :
          (pc[c] = "cs" /\ pc'[c] \in {"unlock", "fn"}) => ReadClaim(res'[c])]_vars

\* C10: a read that follows write(D) with no writer in between returns a
\* dict equal to D (or fails with JsonStoreError if read_text fails).
RoundTrip ==
    \A c \in Callers :
        (Live(c) /\ pc[c] = "unlock" /\ op[c] = "read" /\ lastWritten.set) =>
            \/ res[c].err = "JsonStoreError"
            \/ res[c].err = "none" /\ DictEq(res[c].doc, lastWritten.doc)
\* a document of two keys read back, its keys in sorted order, not in the
\* order they were inserted
ReadBackReordered ==
    \E c \in Callers :
        /\ Live(c) /\ pc[c] = "unlock" /\ op[c] = "read" /\ lastWritten.set
        /\ res[c].err = "none"
        /\ Len(res[c].doc) = 2
        /\ res[c].doc # lastWritten.doc


\* C6: while the marker exists and no living caller holds it, it stays, the
\* file is not modified and nobody enters a critical section; a caller
\* gives up only at a failed attempt made when the timeout has elapsed, with
\* JsonStoreError; and every caller that waits for the locks does give up.
Stale == marker.exists /\ \A c \in Callers : ~(Live(c) /\ fd[c])
Waiting(c) == Live(c) /\ pc[c] \in {"mutex", "lock_open", "lock_sleep"}
GaveUp(c) == Live(c) /\ pc[c] = "release" /\ res[c].err = "JsonStoreError"
StaleMarkerTimesOut ==
    /\ [][Stale => /\ Stale'
                   /\ file' = file
                   /\ marker' = marker
                   /\ \A c \in Callers : ~InCritical(c)']_vars
    /\ [][\A c \in Callers :
             (pc[c] = "lock_open" /\ pc'[c] = "release") =>
                 /\ marker.exists
                 /\ elapsed[c] >= LockTimeoutTicks
                 /\ res'[c].err = "JsonStoreError"]_vars
    /\ \A c \in Callers : (Stale /\ Waiting(c)) ~> (GaveUp(c) \/ ~Live(c))
\* a caller gave up on a stale marker after sleeping, the marker and the
\* file as they were
GaveUpOnStale ==
    \E c \in Callers :
        /\ Stale /\ GaveUp(c)
        /\ elapsed[c] >= LockTimeoutTicks
        /\ ~fd[c]

\* C8: under fair scheduling every store operation of a process that does
\* not crash ends: it returns or raises.
InOperation(c) == Live(c) /\ pc[c] \notin {"idle", "done"}
Termination ==
    \A c \in Callers : InOperation(c) ~> (pc[c] = "done" \/ ~Live(c))
\* a thread queued on the mutex while a thread of its process polls a
\* marker nobody will remove
QueuedBehindPoller ==
    \E c, d \in Callers :
        /\ c # d /\ ProcOf(c) = ProcOf(d)
        /\ Live(c) /\ pc[c] = "mutex"
        /\ pc[d] = "lock_sleep"
        /\ Stale


\* the bookings of the file, as Booking objects
StoredValidated == [i \in 1..Len(StoredBookings) |-> ModelValidate(StoredBookings[i])]
\* two bookings have a day in common
SharesDay(a, b) ==
    \E d \in Days :
        /\ a.start_date <= d /\ d <= a.end_date
        /\ b.start_date <= d /\ d <= b.end_date
Clash(a, b) == a.car_id = b.car_id /\ SharesDay(a, b)

\* C3: when create_booking calls run one at a time on a file without
\* overlapping bookings, no two bookings of the file for one car ever have
\* a day in common.
NoOverlappingBookings ==
    \A i, j \in 1..Len(StoredValidated) :
        i # j => ~Clash(StoredValidated[i], StoredValidated[j])
\* three calls in turn: one created, one refused as a conflict, and one
\* created for the days right after the first
AdjacentCreatedConflictRefused ==
    \E c, d, e \in Callers :
        /\ out[c] = "created" /\ out[d] = "BookingConflictError" /\ out[e] = "created"
        /\ req[c].car_id = req[e].car_id
        /\ req[e].start_date = req[c].end_date + 1
        /\ Clash(req[c], req[d])

\* C4: two bookings of one car with a day in common are in the file only when
\* both were created by calls whose conflict check ran before the other
\* booking was appended: a created booking clashes with no booking its own
\* check looked at, and with no booking of the seeded file.
Persisted(c) ==
    \E i \in 1..Len(StoredValidated) : StoredValidated[i] = req[c]
OverlapOnlyThroughRace ==
    \A c \in Callers :
        (task[c] = "create_booking" /\ Persisted(c)) =>
            \A i \in 1..Len(StoredValidated) :
                LET b == StoredValidated[i]
                IN (b.id # req[c].id /\ Clash(b, req[c])) =>
                       /\ b.id \notin checked[c]
                       /\ \E d \in Callers \ {c} :
                             /\ b = req[d]
                             /\ req[c].id \notin checked[d]
\* both calls returned their booking and the file holds two bookings of one
\* car with a day in common
RaceOverlap ==
    \E c, d \in Callers :
        /\ c # d
        /\ out[c] = "created" /\ out[d] = "created"
        /\ Persisted(c) /\ Persisted(d)
        /\ Clash(req[c], req[d])

\* C11: a write that acquired the locks ends with no error or with
\* JsonStoreError, never with another kind of error.
WriteOutcome ==
    \A c \in Callers :
        (Live(c) /\ op[c] = "write" /\ pc[c] = "unlock") =>
            res[c].err \in {"none", "JsonStoreError"}

StoredCarIds ==
    LET cars == DictGet(StoredDoc.doc, "cars", <<>>)
    IN {cars[i].id : i \in 1..Len(cars)}
MissingCarCall(c) ==
    /\ task[c] = "create_booking" /\ pc[c] = "done"
    /\ req[c].car_id \notin StoredCarIds

FreeCars(d) ==
    LET Free(car) ==
            ~\E i \in 1..Len(StoredValidated) :
                 /\ StoredValidated[i].car_id = car.id
                 /\ StoredValidated[i].start_date <= d
                 /\ d <= StoredValidated[i].end_date
    IN SelectSeq(ListAllCars(StoredDoc.doc), Free)

\* C15: an available_cars call whose store reads succeed returns the cars of
\* the file, in order, that no persisted booking covers on the date.
AvailableCarsExact ==
    \A c \in Callers :
        (task[c] = "available_cars" /\ pc[c] = "done" /\ out[c] # "JsonStoreError") =>
            /\ out[c] = "returned"
            /\ avail[c] = FreeCars(req[c].start_date)

\* C16: the status of a POST /api/bookings whose body the schema accepts is
\* 404 when the car is not in the file, 409 when a booking of the car in the
\* file overlaps the request, and 201 otherwise.
PostOutcomeMapping ==
    \A c \in Callers :
        (task[c] = "post_booking" /\ pc[c] = "done"
            /\ req[c].car_id >= 1 /\ req[c].start_date <= req[c].end_date) =>
            out[c] = IF req[c].car_id \notin StoredCarIds THEN "404"
                     ELSE IF \E i \in 1..Len(StoredValidated) :
                                 Clash(StoredValidated[i], req[c])
                          THEN "409"
                          ELSE "201"

\* C17: an update whose fn raises or returns no dict never reaches the
\* temp-file steps: it has no temporary file and no payload; the step that
\* runs fn leaves the file as it was and ends the call with the error
\* (TypeError for a result that is no dict); when the call leaves the lock
\* the marker it created is gone, and when it has ended it does not hold the
\* mutex.
BadFns == {"raise", "notdict"}
MalformedUpdateRefused ==
    /\ [](\A c \in Callers :
             (Live(c) /\ op[c] = "update" /\ fn[c] \in BadFns) =>
                 /\ pc[c] \notin {"tmp_create", "tmp_write", "tmp_flush", "tmp_fsync",
                                  "replace", "fsync_dir", "cleanup"}
                 /\ ~tmp[c].exists
                 /\ payload[c] = <<>>)
    /\ [][\A c \in Callers :
             (pc[c] = "fn" /\ fn[c] \in BadFns /\ pc'[c] # "fn" /\ alive'[ProcOf(c)]) =>
                 /\ file' = file
                 /\ pc'[c] = "unlock"
                 /\ res'[c].err = IF fn[c] = "notdict" THEN "TypeError" ELSE "FnError"]_vars
    /\ [](\A c \in Callers :
             (Live(c) /\ pc[c] = "release" /\ res[c].err \in {"TypeError", "FnError"}) =>
                 ~(marker.exists /\ marker.by = c))
    /\ [](\A c \in Callers : pc[c] = "done" => mutex[ProcOf(c)] # c)
\* an update whose fn returned no dict is about to return its TypeError: the
\* file holds a document, the marker is gone
TypeErrorLockFreed ==
    \E c \in Callers :
        /\ Live(c) /\ pc[c] = "release" /\ op[c] = "update" /\ fn[c] = "notdict"
        /\ res[c].err = "TypeError"
        /\ file.exists /\ file.text = JsonDumps(SeedDoc)
        /\ ~marker.exists

\* C18: the bookings of the file have pairwise distinct ids.
UniqueBookingIds ==
    Cardinality(BookingIds(StoredBookings)) = Len(StoredBookings)

\* C19: a create_booking call ends with its booking or with an error of the
\* service (BookingServiceError and its subclasses), never with an error of
\* the store.
DomainErrors == {"BookingServiceError", "CarNotFoundError", "BookingConflictError"}
DomainOutcomesOnly ==
    \A c \in Callers :
        (task[c] = "create_booking" /\ pc[c] = "done") =>
            out[c] \in {"created"} \cup DomainErrors

\* C20: a living caller that is not inside the temp-file steps of a write or
\* update has no temporary file: once the call has passed its finally clause
\* (and when it returns or raises) the temporary file it created is gone,
\* whether it was renamed or a step failed.
NoOrphanTemp ==
    \A c \in Callers :
        (Live(c) /\ pc[c] \in {"idle", "mutex", "lock_open", "lock_sleep", "lock_pid",
                               "cs", "fn", "unlock", "release", "ret", "done"}) =>
            ~tmp[c].exists
\* an update failed after it had serialized its document and before the
\* rename: it is past its finally clause with JsonStoreError, the target still
\* the old one
FailedUpdateCleaned ==
    \E c \in Callers :
        /\ Live(c) /\ pc[c] = "unlock" /\ op[c] = "update"
        /\ res[c].err = "JsonStoreError"
        /\ payload[c] # <<>> /\ file.text # payload[c]
        /\ ~tmp[c].exists

\* C21: the file changes only in the rename step of an add's update, and
\* then the new document has the old bookings in their order followed by the
\* added booking as its last entry, the bookings key created if it was
\* absent, and every other key (cars among them) with its old value; the
\* call's booking stays as given when the call returns.
AppendOnly ==
    /\ [][file' # file =>
             \E c \in Callers :
                 /\ pc[c] = "replace" /\ op[c] = "update" /\ fn[c] = "append"
                 /\ StoredDoc'.err = "none"
                 /\ StoredBookings' = Append(StoredBookings, ModelDump(req[c]))
                 /\ DictKeys(StoredDoc'.doc) = DictKeys(StoredDoc.doc) \cup {"bookings"}
                 /\ \A k \in DictKeys(StoredDoc.doc) \ {"bookings"} :
                       DictGet(StoredDoc'.doc, k, <<>>) = DictGet(StoredDoc.doc, k, <<>>)]_vars
    /\ [][\A c \in Callers :
             (pc[c] = "release" /\ task[c] = "add" /\ pc'[c] = "done") =>
                 (res[c].err = "none" => req[c].id \in acked')]_vars
\* an add was renamed in behind an earlier booking, the cars as seeded
AppendedBehindEarlier ==
    \E c \in Callers :
        /\ Live(c) /\ pc[c] = "fsync_dir" /\ op[c] = "update"
        /\ Len(StoredBookings) >= 2
        /\ StoredBookings[Len(StoredBookings)] = ModelDump(req[c])
        /\ DictGet(StoredDoc.doc, "cars", <<>>) = Cars0

\* C22: while only the threads of process 1 use the file and no marker was
\* there before them, a thread attempts the marker only while it holds the
\* mutex, every attempt finds no marker (so none can time out), and no thread
\* sleeps or has waited.
SingleProcessNoTimeout ==
    (pc[3] = "idle" /\ ~(marker.exists /\ marker.by = 0)) =>
        \A c \in Callers :
            (ProcOf(c) = 1 /\ Live(c)) =>
                /\ pc[c] \in {"lock_open", "lock_sleep", "lock_pid"} => mutex[1] = c
                /\ pc[c] = "lock_open" => ~marker.exists
                /\ pc[c] # "lock_sleep"
                /\ elapsed[c] = 0

\* C23: every booking of the file has the id of a car of the file as its
\* car_id, under concurrent create_booking calls on a seeded file whose
\* bookings all reference its cars.
ReferentialIntegrity ==
    \A i \in 1..Len(StoredValidated) : StoredValidated[i].car_id \in StoredCarIds
\* a call for the missing car was refused and the other caller's booking, for
\* a car of the file, was created
MissingRefusedOtherCreated ==
    \E c, d \in Callers :
        /\ task[c] = "create_booking" /\ out[c] = "CarNotFoundError"
        /\ req[c].car_id \notin StoredCarIds
        /\ out[d] = "created" /\ Persisted(d)
        /\ req[d].car_id \in StoredCarIds

\* C24: every attempt to create the marker that finds no marker creates it,
\* however long the caller has waited, and the operation goes on; an attempt
\* that finds the marker sleeps and tries again while the timeout has not
\* elapsed, and ends the call with JsonStoreError only when it has.
RetryGetsLock ==
    [][\A c \in Callers :
          (pc[c] = "lock_open" /\ pc'[c] # "lock_open" /\ alive'[ProcOf(c)]) =>
              IF ~marker.exists
              THEN /\ pc'[c] = "lock_pid"
                   /\ marker'.exists /\ marker'.by = c /\ fd'[c]
              ELSE IF elapsed[c] >= LockTimeoutTicks
              THEN /\ pc'[c] = "release" /\ res'[c].err = "JsonStoreError"
                   /\ marker' = marker
              ELSE /\ pc'[c] = "lock_sleep" /\ marker' = marker]_vars
\* a caller that found the marker and slept has created the marker at a later
\* attempt, the earlier holder's booking in the file
WaitedThenAcquired ==
    \E c \in Callers :
        /\ Live(c) /\ pc[c] = "lock_pid"
        /\ elapsed[c] >= 1
        /\ marker.exists /\ marker.by = c
        /\ Len(StoredBookings) >= 1

\* C25: a read of a file whose top-level JSON value is an array returns the
\* document {"_root": value}; and every repository query over a document
\* without the cars key (bookings key) returns what it returns for an empty
\* cars (bookings) array: the empty list, no car found.
CarQueries == {"cars.list_all", "cars.get_by_id"}
RootWrappedKeysDefaulted ==
    /\ \A c \in Callers :
          (Live(c) /\ pc[c] = "unlock" /\ op[c] = "read"
              /\ file.exists /\ ~Undecodable(file.text)
              /\ IsArrayText(Strip(file.text))) =>
              res[c] = Ok(<<[k |-> "_root", v |-> Strip(file.text)[1].v]>>)
    /\ \A c \in Callers :
          (task[c] \in RepoQueries /\ pc[c] = "done" /\ StoredDoc.err = "none"
              /\ out[c] # "JsonStoreError") =>
              /\ out[c] = "returned"
              /\ (task[c] \in CarQueries /\ "cars" \notin DictKeys(StoredDoc.doc)) =>
                     avail[c] = <<>>
              /\ (task[c] \notin CarQueries /\ "bookings" \notin DictKeys(StoredDoc.doc)) =>
                     avail[c] = <<>>
\* a query over a file holding a top-level array returned the empty list,
\* and the read before it had returned the wrapped array
QueryOverArray ==
    \E c \in Callers :
        /\ task[c] = "bookings.list_by_dates" /\ pc[c] = "done" /\ out[c] = "returned"
        /\ avail[c] = <<>>
        /\ StoredDoc.doc = <<[k |-> "_root", v |-> Cars0]>>

\* C26: a step that removes the marker is taken by the caller that created
\* it, on its way out of its critical section; a caller that gives up with a
\* lock timeout leaves the marker as it is, so the holder stays alone inside.
OnlyCreatorUnlinks ==
    /\ [][(marker.exists /\ ~marker'.exists) =>
             \E c \in Callers :
                 /\ marker.by = c
                 /\ pc[c] = "unlock" /\ pc'[c] = "release"]_vars
    /\ [][\A c \in Callers :
             (pc[c] = "lock_open" /\ pc'[c] = "release") => marker' = marker]_vars
    /\ [](\A c, d \in Callers :
             (c # d /\ InCritical(c)) => ~InCritical(d))
\* a caller has timed out while the creator of the marker is still inside its
\* critical section, and a third caller is waiting
TimedOutWhileHeld ==
    \E c, d, e \in Callers :
        /\ c # d /\ d # e /\ c # e
        /\ InCritical(c) /\ marker.by = c
        /\ Live(d) /\ pc[d] = "release" /\ res[d].err = "JsonStoreError"
        /\ elapsed[d] >= LockTimeoutTicks
        /\ Live(e) /\ pc[e] \in {"mutex", "lock_open", "lock_sleep"}

\* C27: a create_booking call that ends with a validation error,
\* CarNotFoundError or BookingConflictError has left the data file as it was
\* when the call began, and has not called add: with calls made one at a
\* time, no step of a call that has not reached add changes the file, and a
\* call ends with one of these errors only before add.
RefusedErrors == {"BookingServiceError", "CarNotFoundError", "BookingConflictError"}
BeforeAdd(c) == task[c] = "create_booking" /\ stage[c] \in {"none", "get_by_id", "list_by_car_id"}
FailedCreateChangesNothing ==
    /\ [][\A c \in Callers :
             (pc[c] # "done" /\ pc'[c] = "done" /\ task'[c] = "create_booking"
                 /\ out'[c] \in RefusedErrors) =>
                 /\ pc[c] = "idle" \/ BeforeAdd(c)
                 /\ file' = file /\ committed' = committed]_vars
    /\ [][(\E c \in Callers : pc[c] \notin {"idle", "done"} /\ BeforeAdd(c)) =>
             (file' = file /\ committed' = committed)]_vars
    /\ [][\A c \in Callers :
             /\ (stage[c] = "add" /\ pc[c] # "done") => stage'[c] \in {"add", "none"}
             /\ (stage[c] = "add" /\ stage'[c] = "none") => out'[c] \notin RefusedErrors]_vars
\* one call ended with each of the three errors, and the file is the seeded
\* file still
ThreeRefusedFileAsSeeded ==
    \E c, d, e \in Callers :
        /\ pc[c] = "done" /\ out[c] = "BookingServiceError"
        /\ pc[d] = "done" /\ out[d] = "CarNotFoundError"
        /\ pc[e] = "done" /\ out[e] = "BookingConflictError"
        /\ file = FileOf(JsonDumps(BookedDoc))
        /\ Len(committed) = Len(SeedBookings)

\* C28: the middleware passes a counted request of an address on only when
\* fewer than requests_per_minute counted requests of that address were
\* passed on in the window that ends now, and otherwise answers 429 and
\* records nothing; so no window holds more than requests_per_minute passed
\* requests of one address; a request for an exempt path is passed on and
\* leaves the counts alone.
PassedIn(ip, from, to) ==
    LET RECURSIVE Sum(_)
        Sum(t) == IF t > to \/ t > MaxClock THEN 0
                  ELSE (IF t >= 0 THEN handled[ip][t] ELSE 0) + Sum(t + 1)
    IN Sum(from)
RateLimited ==
    /\ [](\A ip \in ClientIps, t \in 0..MaxClock :
             PassedIn(ip, t - WindowTicks + 1, t) <= RequestsPerMinute)
    /\ [][\A ip \in ClientIps :
             handled'[ip] # handled[ip] =>
                 /\ PassedIn(ip, clock - WindowTicks + 1, clock) < RequestsPerMinute
                 /\ handled'[ip] = [handled[ip] EXCEPT ![clock] = @ + 1]
                 /\ answer' = [path |-> answer'.path, ip |-> ip, status |-> "call_next"]
                 /\ answer'.path \notin ExemptPaths]_vars
    /\ [][(answer' # answer /\ answer'.status = "429") =>
             /\ PassedIn(answer'.ip, clock - WindowTicks + 1, clock) >= RequestsPerMinute
             /\ answer'.path \notin ExemptPaths
             /\ handled' = handled
             /\ Len(requests'[answer'.ip]) <= Len(requests[answer'.ip])
             /\ \A i \in 1..Len(requests'[answer'.ip]) : requests'[answer'.ip][i] <= clock]_vars
    /\ [][(answer' # answer /\ answer'.status = "call_next" /\ handled' = handled) =>
             /\ answer'.path \in ExemptPaths
             /\ requests' = requests]_vars
    /\ [](answer.path \in ExemptPaths => answer.status = "call_next")
\* an address is refused with its window full, after earlier requests of it
\* have left the window; the other address is not held back
RefusedWithFullWindow ==
    \E ip \in ClientIps :
        /\ answer.ip = ip /\ answer.status = "429"
        /\ PassedIn(ip, clock - WindowTicks + 1, clock) = RequestsPerMinute
        /\ PassedIn(ip, 0, MaxClock) > RequestsPerMinute
        /\ \E other \in ClientIps \ {ip} : handled[other][clock] > 0

\* C29: the stores of one process share one mutex whatever their paths: at
\* most one caller of a process is between taking the mutex and releasing
\* it, it is the caller the mutex records, and a caller queued on the mutex
\* goes on only when no other caller of its process is in that span, be it
\* inside its critical section or polling for the marker of another path.
MutexPcs == {"lock_open", "lock_sleep", "release"} \cup CriticalPcs
UnderMutex(c) == Live(c) /\ pc[c] \in MutexPcs
OneMutexPerProcess ==
    /\ [](\A c, d \in Callers :
             (c # d /\ ProcOf(c) = ProcOf(d) /\ UnderMutex(c)) => ~UnderMutex(d))
    /\ [](\A c \in Callers : UnderMutex(c) => mutex[ProcOf(c)] = c)
    /\ [][\A c \in Callers :
             (pc[c] = "mutex" /\ pc'[c] # "mutex") =>
                 \A d \in Callers \ {c} : ProcOf(d) = ProcOf(c) => ~UnderMutex(d)]_vars
\* a read of the store on the other path is queued on the mutex while a
\* read of the data file, in the same process, sleeps between two attempts
\* at a marker held for the data file
OtherPathQueued ==
    \E c, d \in Callers :
        /\ c # d /\ ProcOf(c) = ProcOf(d)
        /\ OnOtherPath(c) /\ Live(c) /\ pc[c] = "mutex"
        /\ ~OnOtherPath(d) /\ pc[d] = "lock_sleep" /\ elapsed[d] >= 1
        /\ marker.exists

====
